---- MODULE Spec2Model ----
(***************************************************************************)
(* Model of the Trivy exporter (src/exporter/main.go, the paginated        *)
(* variant that starts at line 574): the scheduler loop of main, one       *)
(* collection cycle of collectAndUploadAll, and the paginated collector    *)
(* collectResourcePaged with the control plane, the object store and the   *)
(* filesystem as a nondeterministic environment.                           *)
(*                                                                         *)
(* Specifications: Spec is the whole program from the entry of main;       *)
(* SpecConfig is loadConfig alone over a wide range of environments;       *)
(* SpecPaged is one call of collectResourcePaged; SpecRepeat is the        *)
(* sequence of the calls for one catalog entry in consecutive cycles, with *)
(* the documents that the sinks store.                                     *)
(*                                                                         *)
(* A document is a record [header, body, footer]; body is the sequence of  *)
(* what was written between the header and the footer: an item is its      *)
(* positive number in the source's order, a separator is COMMA.            *)
(* Writes to the temp file either happen completely or fail without        *)
(* writing anything.                                                       *)
(***************************************************************************)
EXTENDS Integers, Sequences, FiniteSets, TLC

\* ---------------------------------------------------------------- bounds
MaxItems == 3
MaxPage == 2
CycleItems == 1
RepeatItems == 2
NumResources == 3
MaxLen == 3
MaxDigits == 2
MaxFiles == 3
MaxFetches == 5

\* ------------------------------------------------------- program constants
DefaultPageSize == 20
COMMA == 0
EmptyToken == 0

NoErr == "nil"

AllReportResources ==
    << "vulnerabilityreports", "configauditreports",
       "clusterconfigauditreports", "clusterrbacassessmentreports",
       "exposedsecretreports", "clustercompliancereports",
       "clustervulnerabilityreports", "rbacassessmentreports" >>

reportResources == SubSeq(AllReportResources, 1, NumResources)

\* The FileName of the catalog entries, in catalog order; a string is the
\* sequence of its fragments.
AllFileNames ==
    << << "vulnerability", "-", "reports" >>,
       << "config", "-", "audit", "-", "reports" >>,
       << "cluster", "-", "config", "-", "audit", "-", "reports" >>,
       << "cluster", "-", "rbac", "-", "assessment", "-", "reports" >>,
       << "exposed", "-", "secret", "-", "reports" >>,
       << "cluster", "-", "compliance", "-", "reports" >>,
       << "cluster", "-", "vulnerability", "-", "reports" >>,
       << "rbac", "-", "assessment", "-", "reports" >> >>

FileNameShared(i) == AllFileNames[1]
FileName(i) == AllFileNames[i]

NotFoundNeedle == "could not find the requested resource"

\* The failures of the list operation: what the control plane reports and
\* the text of the error, as a sequence of fragments.
ListErrors ==
    { [kind |-> "notFound",
       msg |-> << "the server ", "could not find the requested resource" >>],
      [kind |-> "error", msg |-> << "connection refused" >>] }

VARIABLES
    env,            \* the environment variables of the process
    cfg,            \* Config: [PageSize, S3, FS, SyncInterval]
    mainPc,         \* position of main
    sigCh,          \* a signal is buffered in sigCh
    tickerC,        \* a tick is buffered in ticker.C
    tickerOn,       \* the ticker was created and not stopped
    ctxDone,        \* the governing context is cancelled
    initialDone,    \* history: the initial collection has returned
    running,        \* number of cycles in progress
    sigBetween,     \* history: a signal was delivered between two cycles
    sigInCycle,     \* history: a signal was put into the empty sigCh during
                    \* the cycle in progress
    lastCycleBad,   \* history: the cycle that returned last had a failure
    cyPc,           \* position of collectAndUploadAll
    idx,            \* index of the catalog entry of the range loop
    collectionStats,\* map resource name -> count
    cyErr,          \* collectAndUploadAll returns an error
    attempts,       \* history: results of the collector calls of this cycle
    indexLog,       \* history: index writes of this cycle
    cpc,            \* position of collectResourcePaged
    src,            \* number of items the source holds for the resource
    continueToken,
    totalCount,
    firstItem,
    tmpFile,        \* content of the temp file
    calls,          \* history: list calls issued by this call
    requests,       \* history: token sent and token got, per list call
    pages,          \* history: lengths of the pages received by this call
    lastList,       \* history: outcome of the latest list call
    sinkLog,        \* history: sink writes attempted by this call
    ret,            \* (count, err) returned by collectResourcePaged
    tmpLive,        \* number of temp files that exist
    stored,         \* the sinks: path -> document, for the observed paths
    prev,           \* history: the previous call for the same catalog
                    \* entry, if it went through without any failure
    exporters,      \* CLUSTER_NAME of each exporter on the shared root
    sharedFS,       \* the shared root: path -> exporter that wrote it last
    started,        \* App: number of fetchData calls started
    inflight,       \* App: the fetchData calls awaiting fetchAllClusters
    clusters,       \* App: the clusters state, as the fetch that set it
    isLoading       \* App: the isLoading state

schedVars == << sigCh, tickerC, tickerOn, ctxDone, initialDone, running,
                sigBetween, sigInCycle, lastCycleBad >>
mainVars == << mainPc, schedVars >>
cycleVars == << cyPc, idx, collectionStats, cyErr, indexLog >>
pagedVars == << cpc, src, continueToken, totalCount, firstItem, tmpFile,
                calls,
                requests, pages, lastList, sinkLog, ret, attempts, tmpLive >>
confVars == << env, cfg >>
storeVars == << stored, prev >>
deployVars == << exporters, sharedFS >>
appVars == << started, inflight, clusters, isLoading >>
restVars == << deployVars, appVars >>
vars == << confVars, mainVars, cycleVars, pagedVars, storeVars, restVars >>

\* ------------------------------------------------------------- helpers
Min(a, b) == IF a < b THEN a ELSE b

CeilDiv(n, p) == (n + p - 1) \div p

RECURSIVE SumSeq(_)
SumSeq(s) == IF s = << >> THEN 0 ELSE Head(s) + SumSeq(Tail(s))

EmptyDoc == [header |-> FALSE, body |-> << >>, footer |-> FALSE]

IsItem(t) == t # COMMA

\* The items of a document, in order.
ItemsOf(doc) == SelectSeq(doc.body, IsItem)

\* Header, items separated by exactly one comma, footer.
WellFormed(doc) ==
    /\ doc.header
    /\ doc.footer
    /\ \/ doc.body = << >>
       \/ /\ Len(doc.body) % 2 = 1
          /\ \A i \in DOMAIN doc.body :
                IF i % 2 = 1 THEN IsItem(doc.body[i])
                             ELSE doc.body[i] = COMMA

\* ---------------------------------------------------------- configuration
\* The value of an environment variable is the sequence of its characters
\* (of its fragments, for names and paths); a variable that is not set reads
\* as the empty string.
DigitChars == << "0", "1", "2", "3", "4", "5", "6", "7", "8", "9" >>

IsDigit(c) == \E i \in DOMAIN DigitChars : DigitChars[i] = c

DigitVal(c) == (CHOOSE i \in DOMAIN DigitChars : DigitChars[i] = c) - 1

\* Length of the longest prefix of s made of digits.
RECURSIVE DigitRun(_)
DigitRun(s) ==
    IF s = << >> \/ ~IsDigit(Head(s)) THEN 0 ELSE 1 + DigitRun(Tail(s))

\* Length of the longest prefix of s without a digit.
RECURSIVE UnitRun(_)
UnitRun(s) ==
    IF s = << >> \/ IsDigit(Head(s)) THEN 0 ELSE 1 + UnitRun(Tail(s))

RECURSIVE DecimalValue(_, _)
DecimalValue(s, acc) ==
    IF s = << >> THEN acc
    ELSE DecimalValue(Tail(s), acc * 10 + DigitVal(Head(s)))

\* The decimal digits of a natural number.
RECURSIVE DecimalString(_)
DecimalString(n) ==
    IF n < 10 THEN << DigitChars[n + 1] >>
    ELSE Append(DecimalString(n \div 10), DigitChars[(n % 10) + 1])

HasSign(s) == s # << >> /\ Head(s) \in {"-", "+"}

Unsigned(s) == IF HasSign(s) THEN Tail(s) ELSE s

Signed(s, v) == IF s # << >> /\ Head(s) = "-" THEN 0 - v ELSE v

\* Durations are counted in milliseconds.
Second == 1000
Minute == 60 * Second
Hour == 60 * Minute

\* The units of time.ParseDuration that the strings of the model can spell
\* (0: not a unit).
UnitOf(u) ==
    CASE u = << "m", "s" >> -> 1
      [] u = << "s" >> -> Second
      [] u = << "m" >> -> Minute
      [] u = << "h" >> -> Hour
      [] OTHER -> 0

\* The groups "<digits><unit>" of a duration string, summed up.
RECURSIVE ParseGroups(_, _)
ParseGroups(s, acc) ==
    IF s = << >> THEN [ok |-> TRUE, d |-> acc]
    ELSE LET nd == DigitRun(s)
             rest == SubSeq(s, nd + 1, Len(s))
             nu == UnitRun(rest)
             unit == UnitOf(SubSeq(rest, 1, nu))
         IN  IF nd = 0 \/ nu = 0 \/ unit = 0
             THEN [ok |-> FALSE, d |-> 0]
             ELSE ParseGroups(SubSeq(rest, nu + 1, Len(rest)),
                              acc + DecimalValue(SubSeq(s, 1, nd), 0) * unit)

\* time.ParseDuration(s): [-+]?(<digits><unit>)+, or "0".
ParseDuration(s) ==
    LET u == Unsigned(s)
    IN  IF u = << "0" >> THEN [ok |-> TRUE, d |-> 0]
        ELSE IF u = << >> THEN [ok |-> FALSE, d |-> 0]
        ELSE LET r == ParseGroups(u, 0)
             IN  [ok |-> r.ok, d |-> Signed(s, r.d)]

\* strconv.Atoi(s): [-+]?<digits>
Atoi(s) ==
    LET u == Unsigned(s)
    IN  IF u # << >> /\ DigitRun(u) = Len(u)
        THEN [ok |-> TRUE, n |-> Signed(s, DecimalValue(u, 0))]
        ELSE [ok |-> FALSE, n |-> 0]

\* if value := os.Getenv(key); value != "" { return value }; return default
getEnv(value, defaultValue) == IF value # << >> THEN value ELSE defaultValue

\* d, err := time.ParseDuration(s); if err != nil { return 5 * time.Minute }
parseDuration(s) ==
    LET r == ParseDuration(s) IN IF r.ok THEN r.d ELSE 5 * Minute

\* i, err := strconv.Atoi(s); if err != nil { return defaultVal }
parseInt(s, defaultVal) ==
    LET r == Atoi(s) IN IF r.ok THEN r.n ELSE defaultVal

\* The Config that loadConfig builds from the environment; S3 and FS say
\* that S3Bucket and FSOutputDir are not empty (S3: the S3 client exists).
ConfigOf(e) ==
    [ ClusterName |-> getEnv(e.CLUSTER_NAME, << "dev" >>),
      S3Bucket |-> getEnv(e.S3_BUCKET, << >>),
      S3Prefix |-> getEnv(e.S3_PREFIX, << "vuln" >>),
      FSOutputDir |-> getEnv(e.FS_OUTPUT_DIR, << >>),
      S3 |-> e.S3_BUCKET # << >>,
      FS |-> e.FS_OUTPUT_DIR # << >>,
      SyncInterval |-> parseDuration(getEnv(e.SYNC_INTERVAL, << "5", "m" >>)),
      PageSize |-> parseInt(getEnv(e.PAGE_SIZE, << "2", "0" >>),
                            DefaultPageSize) ]

\* if cfg.S3Bucket == "" && cfg.FSOutputDir == "" { log.Fatal(...) }
NoSinkNever(c) == FALSE
NoSinkConfigured(c) == ~c.S3 /\ ~c.FS

\* The zero value of Config.
ZeroConfig ==
    [ ClusterName |-> << >>, S3Bucket |-> << >>, S3Prefix |-> << >>,
      FSOutputDir |-> << >>, S3 |-> FALSE, FS |-> FALSE,
      SyncInterval |-> 0, PageSize |-> 0 ]

\* The values that S3_BUCKET and FS_OUTPUT_DIR take: not set, or a name.
BucketNames == { << >>, << "bucket" >> }

OutputDirs == { << >>, << "/", "data" >> }

\* The environments of the whole-program specification: any choice of the
\* sinks, SYNC_INTERVAL not set, PAGE_SIZE a number from 1 to MaxPage.
Environments ==
    [ CLUSTER_NAME : { << >> }, S3_PREFIX : { << >> },
      S3_BUCKET : BucketNames, FS_OUTPUT_DIR : OutputDirs,
      SYNC_INTERVAL : { << >> },
      PAGE_SIZE : { DecimalString(n) : n \in 1..MaxPage } ]

\* The configurations that loadConfig returns for them.
Configs ==
    { ConfigOf(e) : e \in { x \in Environments :
                                ~NoSinkConfigured(ConfigOf(x)) } }

EnvOf(c) == CHOOSE e \in Environments : ConfigOf(e) = c

\* limit := int64(cfg.PageSize); if limit <= 0 { limit = 20 }
Limit(c) == IF c.PageSize <= 0 THEN DefaultPageSize ELSE c.PageSize

\* ------------------------------------------------- the control plane
\* listOpts := metav1.ListOptions{Limit: limit, Continue: continueToken}
RequestTokenEmpty(tok) == EmptyToken
RequestToken(tok) == tok

\* The token of a response that failed or that the loop did not read.
NoToken == -1

\* A continuation token stands for the number of items already served.
TokenFor(served, n) == IF served >= n THEN EmptyToken ELSE served + 1

ServedBy(tok) == IF tok = EmptyToken THEN 0 ELSE tok - 1

\* Page lengths the server may answer with: at most limit items, at least
\* one while items remain.
PageLens(tok, n, limit) ==
    LET rem == n - ServedBy(tok)
    IN  IF rem = 0 THEN {0} ELSE 1..Min(limit, rem)

PageItems(tok, k) == [i \in 1..k |-> ServedBy(tok) + i]

\* ------------------------------------------------------------- paths
\* s3Path := fmt.Sprintf("%s/%s", cfg.S3Prefix, cfg.ClusterName)
S3Path(c) == c.S3Prefix \o << "/" >> \o c.ClusterName

\* latestKey := fmt.Sprintf("%s/%s.json", s3Path, resource.FileName)
LatestKeyInReports(c, i) ==
    S3Path(c) \o << "/", "reports", "/" >> \o FileName(i) \o << ".", "json" >>
LatestKey(c, i) == S3Path(c) \o << "/" >> \o FileName(i) \o << ".", "json" >>

\* destPath := fmt.Sprintf("%s/%s-%s.json", cfg.FSOutputDir,
\*                         cfg.ClusterName, resource.FileName)
DestPathNested(c, i) ==
    c.FSOutputDir \o << "/" >> \o c.ClusterName \o << "/" >> \o FileName(i)
        \o << ".", "json" >>
DestPath(c, i) ==
    c.FSOutputDir \o << "/" >> \o c.ClusterName \o << "-" >> \o FileName(i)
        \o << ".", "json" >>

\* indexKey := fmt.Sprintf("%s/index.json", s3Path)
IndexKey(c) == S3Path(c) \o << "/", "index", ".", "json" >>

\* fsClusterDir := fmt.Sprintf("%s/%s", cfg.FSOutputDir, cfg.ClusterName)
FSClusterDir(c) == c.FSOutputDir \o << "/" >> \o c.ClusterName

\* fmt.Sprintf("%s/index.json", fsClusterDir)
IndexPath(c) == FSClusterDir(c) \o << "/", "index", ".", "json" >>

\* ------------------------------------------------------------- sinks
\* The paths of the per-resource documents in both sinks.
DocumentPaths(c) ==
    { LatestKey(c, i) : i \in 1..NumResources }
        \cup { DestPath(c, i) : i \in 1..NumResources }

\* The content of a path that was replaced by a write of doc: PutObject
\* replaces the object, os.Create truncates the file before io.Copy.
PutAppended(old, doc) ==
    [header |-> doc.header, body |-> old.body \o doc.body,
     footer |-> doc.footer]
Put(old, doc) == doc

\* The sinks after a write of doc at path p; only the observed paths are
\* followed.
WriteAt(st, p, doc) ==
    IF p \in DOMAIN st THEN [st EXCEPT ![p] = Put(st[p], doc)] ELSE st

\* os.CreateTemp("", ...): the stream goes to a scratch file of the temp
\* directory, the sinks are not touched before the upload.
AfterCreateInPlace(st, p) ==
    IF p \in DOMAIN st THEN [st EXCEPT ![p] = EmptyDoc] ELSE st
AfterCreateTemp(st, p) == st

NoPrev ==
    [clean |-> FALSE, src |-> 0, count |-> 0, s3 |-> EmptyDoc,
     fs |-> EmptyDoc]

\* ------------------------------------------------- collectResourcePaged
\* strings.Contains(err.Error(), "could not find the requested resource")
IsNotFoundNever(e) == FALSE
IsNotFound(e) == \E i \in DOMAIN e.msg : e.msg[i] = NotFoundNeedle

\* if continueToken == "" { break }
LoopDoneAfterFirstPage(tok) == TRUE
LoopDone(tok) == tok = EmptyToken

\* The body of "for _, item := range list.Items" over a whole page; fails
\* is the set of positions of the page whose Encode fails.
RECURSIVE EncodePage(_, _, _, _)
EncodePage(items, i, fails, st) ==
    IF i > Len(items) THEN st
    ELSE LET sep == IF st.firstItem THEN st.body
                    ELSE Append(st.body, COMMA)
         IN  IF i \in fails
             THEN EncodePage(items, i + 1, fails,
                             [st EXCEPT !.body = sep])
             ELSE EncodePage(items, i + 1, fails,
                             [body |-> Append(sep, items[i]),
                              firstItem |-> FALSE,
                              totalCount |-> st.totalCount + 1])

\* defer func() { tmpFile.Close(); os.Remove(tmpFile.Name()) }()
CleanupSkipped(live) == live
Cleanup(live) == live - 1

\* The values of return count, err
Result(count, err) ==
    /\ cpc' = "returned"
    /\ ret' = [count |-> count, err |-> err]
    /\ attempts' = Append(attempts, [res |-> idx, count |-> count,
                                     ok |-> err = NoErr])

\* return count, err once the temp file exists: the deferred function runs.
Return(count, err) ==
    /\ Result(count, err)
    /\ tmpLive' = Cleanup(tmpLive)

\* os.CreateTemp and the write of the header; the locals of the loop.
Begin ==
    /\ cpc = "begin"
    /\ \E o \in {"ok", "createTemp", "header"} :
         IF o = "ok"
         THEN /\ tmpFile' = [EmptyDoc EXCEPT !.header = TRUE]
              /\ tmpLive' = tmpLive + 1
              /\ cpc' = "list"
              /\ UNCHANGED << ret, attempts >>
         ELSE /\ Result(0, o)
              /\ tmpLive' = IF o = "createTemp" THEN tmpLive
                            ELSE Cleanup(tmpLive + 1)
              /\ UNCHANGED tmpFile
    /\ continueToken' = EmptyToken
    /\ totalCount' = 0
    /\ firstItem' = TRUE
    /\ stored' = AfterCreateTemp(stored, DestPath(cfg, idx))
    /\ UNCHANGED << restVars, confVars, prev, mainVars, cycleVars, src, calls,
                    requests, pages,
                    lastList, sinkLog >>

\* One List call that fails.
ListFails ==
    /\ cpc = "list"
    /\ calls' = calls + 1
    /\ requests' = Append(requests, [sent |-> RequestToken(continueToken),
                                     got |-> NoToken])
    /\ \E e \in ListErrors :
         /\ lastList' = e.kind
         /\ IF IsNotFound(e)
            THEN Return(0, NoErr)
            ELSE Return(0, "list")
    /\ UNCHANGED << restVars, confVars, storeVars,
                    mainVars, cycleVars, src, continueToken, totalCount,
                    firstItem, tmpFile, pages, sinkLog >>

\* The write of a separator can fail once an item was written and another
\* one follows.
CommaCanFail(tok, n, limit, first) ==
    LET rem == n - ServedBy(tok)
    IN  \/ rem >= 1 /\ ~first
        \/ Min(limit, rem) >= 2

\* One List call that succeeds, and the loop over the items of its page:
\* either it runs through the page, with the items whose Encode fails
\* skipped, or the write of a separator fails and the call returns 0, err.
ListPage ==
    /\ cpc = "list"
    /\ calls' = calls + 1
    /\ lastList' = "page"
    /\ \/ /\ \E k \in PageLens(RequestToken(continueToken), src,
                                Limit(cfg)) :
             \E fails \in SUBSET (1..k) :
               LET sent == RequestToken(continueToken)
                   st == EncodePage(PageItems(sent, k), 1, fails,
                                    [body |-> tmpFile.body,
                                     firstItem |-> firstItem,
                                     totalCount |-> totalCount])
                   tok == TokenFor(ServedBy(sent) + k, src)
               IN  /\ tmpFile' = [tmpFile EXCEPT !.body = st.body]
                   /\ requests' = Append(requests,
                                         [sent |-> sent, got |-> tok])
                   /\ firstItem' = st.firstItem
                   /\ totalCount' = st.totalCount
                   /\ continueToken' = tok
                   /\ pages' = Append(pages, k)
                   /\ cpc' = IF LoopDone(tok) THEN "footer" ELSE "list"
          /\ UNCHANGED << ret, attempts, tmpLive >>
       \/ /\ CommaCanFail(RequestToken(continueToken), src, Limit(cfg),
                          firstItem)
          /\ Return(0, "comma")
          /\ requests' = Append(requests,
                                [sent |-> RequestToken(continueToken),
                                 got |-> NoToken])
          /\ UNCHANGED << continueToken, totalCount, firstItem, tmpFile,
                          pages >>
    /\ UNCHANGED << restVars, confVars, storeVars, mainVars, cycleVars, src,
                    sinkLog >>

AfterFooter(c) == IF c.S3 THEN "s3" ELSE IF c.FS THEN "fs" ELSE "success"

\* The footer and the seek to the start of the temp file.
Footer ==
    /\ cpc = "footer"
    /\ \E o \in {"ok", "footer", "seek"} :
         IF o = "ok"
         THEN /\ tmpFile' = [tmpFile EXCEPT !.footer = TRUE]
              /\ cpc' = AfterFooter(cfg)
              /\ UNCHANGED << ret, attempts, tmpLive >>
         ELSE /\ tmpFile' = [tmpFile EXCEPT !.footer = (o = "seek")]
              /\ Return(0, o)
    /\ UNCHANGED << restVars, confVars, storeVars,
                    mainVars, cycleVars, src, continueToken, totalCount,
                    firstItem, calls, requests, pages, lastList, sinkLog >>

\* What collectResourcePaged returns when uploadFileToS3 fails.
UploadErrIgnored(count) == [count |-> count, err |-> NoErr]
UploadErrResult(count) == [count |-> 0, err |-> "upload"]

\* if s3Client != nil { uploadFileToS3(latestKey) }
UploadS3 ==
    /\ cpc = "s3"
    /\ \E ok \in BOOLEAN :
         /\ sinkLog' = Append(sinkLog, [sink |-> "s3", ok |-> ok,
                                        path |-> LatestKey(cfg, idx),
                                        doc |-> tmpFile])
         /\ stored' = IF ok THEN WriteAt(stored, LatestKey(cfg, idx), tmpFile)
                      ELSE stored
         /\ IF ok
            THEN /\ cpc' = IF cfg.FS THEN "fs" ELSE "success"
                 /\ UNCHANGED << ret, attempts, tmpLive >>
            ELSE LET r == UploadErrResult(totalCount)
                 IN  Return(r.count, r.err)
    /\ UNCHANGED << restVars, confVars, prev, mainVars,
                    cycleVars, src, continueToken, totalCount,
                    firstItem, tmpFile, calls, requests, pages, lastList >>

\* The prefix of a document that a failed io.Copy leaves in the file.
Truncated(doc) == [doc EXCEPT !.footer = FALSE]

\* if cfg.FSOutputDir != "" { Seek; os.Create(destPath); io.Copy }
WriteFS ==
    /\ cpc = "fs"
    /\ \E o \in {"ok", "seek", "create", "copy"} :
         /\ sinkLog' =
               IF o = "seek" THEN sinkLog
               ELSE Append(sinkLog,
                       [sink |-> "fs", ok |-> o = "ok",
                        path |-> DestPath(cfg, idx),
                        doc |-> IF o = "ok" THEN tmpFile
                                ELSE IF o = "copy" THEN Truncated(tmpFile)
                                ELSE EmptyDoc])
         /\ stored' =
               IF o = "ok" THEN WriteAt(stored, DestPath(cfg, idx), tmpFile)
               ELSE IF o = "copy"
               THEN WriteAt(stored, DestPath(cfg, idx), Truncated(tmpFile))
               ELSE stored
         /\ IF o = "ok"
            THEN /\ cpc' = "success"
                 /\ UNCHANGED << ret, attempts, tmpLive >>
            ELSE Return(0, o)
    /\ UNCHANGED << restVars, confVars, prev, mainVars,
                    cycleVars, src, continueToken, totalCount,
                    firstItem, tmpFile, calls, requests, pages, lastList >>

\* return totalCount, nil
Success ==
    /\ cpc = "success"
    /\ Return(totalCount, NoErr)
    /\ UNCHANGED << restVars, confVars, storeVars,
                    mainVars, cycleVars, src, continueToken, totalCount,
                    firstItem, tmpFile, calls,
                    requests, pages, lastList, sinkLog >>

Paged == Begin \/ ListFails \/ ListPage \/ Footer
            \/ UploadS3 \/ WriteFS \/ Success

\* ------------------------------ two exporters on one filesystem root
\* Values of CLUSTER_NAME (unset: the default "dev").
ClusterNames == { << >>, << "prod" >>, << "prod", "-", "cluster" >> }

\* The environment of an exporter that writes to the root /data only.
ExporterEnv(name) ==
    [ CLUSTER_NAME |-> name, S3_PREFIX |-> << >>, S3_BUCKET |-> << >>,
      FS_OUTPUT_DIR |-> << "/", "data" >>, SYNC_INTERVAL |-> << >>,
      PAGE_SIZE |-> << >> ]

\* cfg := loadConfig() in exporter e
ExporterConfig(e) == ConfigOf(ExporterEnv(exporters[e]))

\* Two exporters with different cluster names are started with the same
\* FS_OUTPUT_DIR.
Deploy ==
    /\ exporters = << >>
    /\ \E n1, n2 \in ClusterNames :
         /\ ConfigOf(ExporterEnv(n1)).ClusterName
               # ConfigOf(ExporterEnv(n2)).ClusterName
         /\ exporters' = << n1, n2 >>
    /\ UNCHANGED << sharedFS, appVars, confVars, mainVars, cycleVars,
                    pagedVars, storeVars >>

\* The filesystem copy of collectResourcePaged, in exporter e for catalog
\* entry i: os.Create(destPath) and io.Copy replace the file.
SharedWriteFS ==
    /\ \E e \in DOMAIN exporters, i \in DOMAIN AllFileNames :
         LET p == DestPath(ExporterConfig(e), i)
         IN  /\ \/ p \in DOMAIN sharedFS
                \/ Cardinality(DOMAIN sharedFS) < MaxFiles
             /\ sharedFS' = [q \in DOMAIN sharedFS \cup {p} |->
                                IF q = p THEN [exporter |-> e, res |-> i]
                                ELSE sharedFS[q]]
    /\ UNCHANGED << exporters, appVars, confVars, mainVars, cycleVars,
                    pagedVars, storeVars >>

\* ------------------------------------------------- the dashboard App
\* useEffect(() => { fetchData(); }, [fetchData]): the first call of
\* fetchData, up to its await fetchAllClusters().
Mount ==
    /\ started = 0
    /\ started' = 1
    /\ inflight' = {1}
    /\ UNCHANGED << clusters, isLoading, deployVars, confVars, mainVars,
                    cycleVars, pagedVars, storeVars >>

\* setInterval(() => { fetchData(); }, 30000): a further call of fetchData,
\* whether or not earlier ones have finished.
IntervalTick ==
    /\ started >= 1
    /\ started < MaxFetches
    /\ started' = started + 1
    /\ inflight' = inflight \cup {started + 1}
    /\ UNCHANGED << clusters, isLoading, deployVars, confVars, mainVars,
                    cycleVars, pagedVars, storeVars >>

\* fetchAllClusters() of call f resolves: setClusters(data), and in the
\* finally block setIsLoading(false). The calls resolve in any order.
FetchResolved ==
    /\ \E f \in inflight :
         /\ clusters' = f
         /\ inflight' = inflight \ {f}
    /\ isLoading' = FALSE
    /\ UNCHANGED << started, deployVars, confVars, mainVars, cycleVars,
                    pagedVars, storeVars >>

\* No exporter deployed, an empty root; the App before its first effect:
\* useState([]) and useState(true).
InitRest ==
    /\ exporters = << >>
    /\ sharedFS = << >>
    /\ started = 0
    /\ inflight = {}
    /\ clusters = 0
    /\ isLoading = TRUE

\* ------------------------------------ one call of collectResourcePaged
\* The state at the call for the first catalog entry.
InitCall ==
    /\ cfg \in Configs
    /\ env = EnvOf(cfg)
    /\ mainPc = "initialCycle"
    /\ sigCh = FALSE
    /\ tickerC = FALSE
    /\ tickerOn = FALSE
    /\ ctxDone = FALSE
    /\ initialDone = FALSE
    /\ running = 1
    /\ sigBetween = FALSE
    /\ sigInCycle = FALSE
    /\ lastCycleBad = FALSE
    /\ cyPc = "loop"
    /\ idx = 1
    /\ collectionStats = << >>
    /\ cyErr = FALSE
    /\ attempts = << >>
    /\ indexLog = << >>
    /\ cpc = "begin"
    /\ continueToken = EmptyToken
    /\ totalCount = 0
    /\ firstItem = TRUE
    /\ tmpFile = EmptyDoc
    /\ calls = 0
    /\ requests = << >>
    /\ InitRest
    /\ pages = << >>
    /\ lastList = "none"
    /\ sinkLog = << >>
    /\ ret = [count |-> 0, err |-> NoErr]
    /\ tmpLive = 0
    /\ prev = NoPrev

InitPaged == InitCall /\ src \in 0..MaxItems /\ stored = << >>

SpecPaged == InitPaged /\ [][Paged]_vars

\* The collector is one sequential goroutine: as long as a step of the
\* call is possible, one is taken.
SpecPagedFair == SpecPaged /\ WF_vars(Paged)

\* ------------ the calls for one catalog entry in consecutive cycles
\* The call has gone through without any failure: every page was listed,
\* every item encoded, every configured sink written.
CleanCall ==
    /\ cpc = "returned"
    /\ ret.err = NoErr
    /\ lastList = "page"
    /\ totalCount = SumSeq(pages)

\* From the return of the call for a catalog entry to the call for the
\* same entry in the next cycle: fresh locals, a source that may have
\* changed, sinks as the call has left them.
Recall ==
    /\ cpc = "returned"
    /\ prev' = IF CleanCall
               THEN [clean |-> TRUE, src |-> src, count |-> ret.count,
                     s3 |-> stored[LatestKey(cfg, idx)],
                     fs |-> stored[DestPath(cfg, idx)]]
               ELSE NoPrev
    /\ cpc' = "begin"
    /\ src' \in 0..RepeatItems
    /\ continueToken' = EmptyToken
    /\ totalCount' = 0
    /\ firstItem' = TRUE
    /\ tmpFile' = EmptyDoc
    /\ calls' = 0
    /\ requests' = << >>
    /\ pages' = << >>
    /\ lastList' = "none"
    /\ sinkLog' = << >>
    /\ ret' = [count |-> 0, err |-> NoErr]
    /\ attempts' = << >>
    /\ UNCHANGED << restVars, confVars, stored, mainVars, cycleVars, tmpLive >>

InitRepeat ==
    /\ InitCall
    /\ src \in 0..RepeatItems
    /\ stored = [p \in DocumentPaths(cfg) |-> EmptyDoc]

SpecRepeat == InitRepeat /\ [][Paged \/ Recall]_vars

\* ------------------------------------------------- collectAndUploadAll
\* collectionStats := make(map[string]int)
KeptStats(old) == old
NewStats(old) == << >>

\* The entry of collectAndUploadAll, up to the start of the range loop.
BeginCycle ==
    /\ cyPc' = "loop"
    /\ idx' = 1
    /\ collectionStats' = NewStats(collectionStats)
    /\ cyErr' = FALSE
    /\ attempts' = << >>
    /\ indexLog' = << >>
    /\ running' = running + 1
    /\ lastCycleBad' = FALSE

\* count, err := collectResourcePaged(..., resource, ...)
CallCollect ==
    /\ cyPc = "loop"
    /\ cpc = "idle"
    /\ idx <= Len(reportResources)
    /\ cpc' = "begin"
    /\ src' \in 0..CycleItems
    /\ UNCHANGED << restVars, confVars, storeVars,
                    mainVars, cycleVars, continueToken, totalCount,
                    firstItem, tmpFile, calls,
                    requests, pages, lastList, sinkLog, ret,
                    attempts, tmpLive >>

\* if err != nil { log; continue }
NextIdxOnErrorBreak(i) == Len(reportResources) + 1
NextIdxOnError(i) == i + 1

\* The locals of a returned call are gone (and the deferred
\* tmpFile.Close(), os.Remove(tmpFile.Name()) have run).
ClearLocals ==
    /\ src' = 0
    /\ continueToken' = EmptyToken
    /\ totalCount' = 0
    /\ firstItem' = TRUE
    /\ tmpFile' = EmptyDoc
    /\ calls' = 0
    /\ requests' = << >>
    /\ pages' = << >>
    /\ lastList' = "none"
    /\ sinkLog' = << >>
    /\ ret' = [count |-> 0, err |-> NoErr]

\* The rest of the loop body: collectionStats[resource.Name] = count.
AfterCollect ==
    /\ cyPc = "loop"
    /\ cpc = "returned"
    /\ cpc' = "idle"
    /\ IF ret.err # NoErr
       THEN /\ idx' = NextIdxOnError(idx)
            /\ UNCHANGED collectionStats
       ELSE /\ idx' = idx + 1
            /\ collectionStats' =
                  (reportResources[idx] :> ret.count) @@ collectionStats
    /\ ClearLocals
    /\ UNCHANGED << restVars, confVars, storeVars,
                    mainVars, cyPc, cyErr, indexLog, attempts,
                    tmpLive >>

\* Where collectAndUploadAll continues after the (attempted) upload of the
\* index: if cfg.FSOutputDir != "" { ... }; return nil
AfterIndexS3Return(c) == "ret"
AfterIndexS3(c) == IF c.FS THEN "indexFS" ELSE "ret"

\* metadataJSON, err := json.MarshalIndent(metadata); the index document.
\* The metadata holds strings, a slice of strings and a map[string]int, a
\* value that json.MarshalIndent encodes without error: the error branch
\* is never taken.
MarshalMetadata ==
    /\ cyPc = "loop"
    /\ cpc = "idle"
    /\ idx > Len(reportResources)
    /\ cyErr' = FALSE
    /\ cyPc' = IF cfg.S3 THEN "indexS3" ELSE AfterIndexS3(cfg)
    /\ UNCHANGED << restVars, confVars, storeVars,
                    mainVars, idx, collectionStats, indexLog,
                    pagedVars >>

\* if s3Client != nil { uploadBufferToS3(indexKey, indexJSON) }
IndexS3 ==
    /\ cyPc = "indexS3"
    /\ \E ok \in BOOLEAN :
         indexLog' = Append(indexLog, [sink |-> "s3", ok |-> ok,
                                       path |-> IndexKey(cfg),
                                       stats |-> collectionStats])
    /\ cyPc' = AfterIndexS3(cfg)
    /\ UNCHANGED << restVars, confVars, storeVars,
                    mainVars, idx, collectionStats, cyErr, pagedVars >>

\* if cfg.FSOutputDir != "" { os.WriteFile(index.json, indexJSON) }
IndexFS ==
    /\ cyPc = "indexFS"
    /\ \E ok \in BOOLEAN :
         indexLog' = Append(indexLog, [sink |-> "fs", ok |-> ok,
                                       path |-> IndexPath(cfg),
                                       stats |-> collectionStats])
    /\ cyPc' = "ret"
    /\ UNCHANGED << restVars, confVars, storeVars,
                    mainVars, idx, collectionStats, cyErr, pagedVars >>

Cycle == CallCollect \/ AfterCollect \/ MarshalMetadata \/ IndexS3
            \/ IndexFS

\* ------------------------------------------------------------------ main
\* What main does first once signal.Notify has returned.
FirstStepTicker == "newTicker"
FirstStep == "initialCycle"

\* Where main continues when collectAndUploadAll has returned err: the
\* error is logged, after the initial cycle the ticker is created, after a
\* tick-driven cycle the for loop goes back to the select.
AfterCycleOnce(pc, err) ==
    IF pc = "initialCycle" THEN "newTicker" ELSE "stopped"
AfterCycle(pc, err) == IF pc = "initialCycle" THEN "newTicker" ELSE "select"

\* main is at the select statement.
AtSelectOrInCycle(pc) == pc \in {"select", "tickCycle"}
AtSelect(pc) == pc = "select"

CycleFailed ==
    \/ cyErr
    \/ \E i \in DOMAIN attempts : ~attempts[i].ok
    \/ \E i \in DOMAIN indexLog : ~indexLog[i].ok

\* Where main can receive from sigCh or ctx.Done(): only in the select of
\* its for loop, which it reaches between two cycles.
ShutdownAnywhere(pc) == pc \in {"initialCycle", "select", "tickCycle"}
ShutdownPoint(pc) == pc = "select"

\* defer ticker.Stop(); defer cancel()
Stop ==
    /\ mainPc' = "stopped"
    /\ tickerOn' = FALSE
    /\ ctxDone' = TRUE

\* cfg := loadConfig()
LoadConfig ==
    /\ mainPc = "loadConfig"
    /\ cfg' = ConfigOf(env)
    /\ mainPc' = IF NoSinkConfigured(cfg') THEN "fatal" ELSE "clients"
    /\ UNCHANGED << restVars, env, storeVars, schedVars, cycleVars,
                    pagedVars >>

\* What can fail between loadConfig and signal.Notify: the cluster client,
\* the AWS configuration if a bucket is set, os.MkdirAll if a root is set.
StartupOutcomes(c) ==
    {"ok", "k8s"} \cup (IF c.S3 THEN {"aws"} ELSE {})
                  \cup (IF c.FS THEN {"mkdir"} ELSE {})

\* The clients, the output directory, the context and signal.Notify.
Startup ==
    /\ mainPc = "clients"
    /\ \E o \in StartupOutcomes(cfg) :
         mainPc' = IF o = "ok" THEN "start" ELSE "fatal"
    /\ UNCHANGED << restVars, confVars, storeVars, schedVars, cycleVars,
                    pagedVars >>

\* signal.Notify has been called and the process runs.
Notified ==
    mainPc \in {"start", "initialCycle", "newTicker", "select", "tickCycle"}

\* SIGINT or SIGTERM before signal.Notify ends the process.
Killed ==
    /\ mainPc \in {"loadConfig", "clients"}
    /\ mainPc' = "killed"
    /\ UNCHANGED << restVars, confVars, storeVars, schedVars, cycleVars,
                    pagedVars >>

\* if err := collectAndUploadAll(...); err != nil { log }
MainStart ==
    /\ mainPc = "start"
    /\ mainPc' = FirstStep
    /\ IF FirstStep = "initialCycle"
       THEN BeginCycle
       ELSE UNCHANGED << cyPc, idx, collectionStats, cyErr, attempts,
                         indexLog, running, lastCycleBad >>
    /\ UNCHANGED << restVars, confVars, storeVars,
                    sigCh, tickerC, tickerOn, ctxDone, initialDone,
                    sigBetween, sigInCycle, cpc, src, continueToken,
                    totalCount, firstItem, tmpFile, calls,
                    requests, pages, lastList,
                    sinkLog, ret, tmpLive >>

\* collectAndUploadAll returns to main.
CycleReturn ==
    /\ cyPc = "ret"
    /\ cyPc' = "idle"
    /\ running' = running - 1
    /\ lastCycleBad' = CycleFailed
    /\ initialDone' = (initialDone \/ mainPc = "initialCycle")
    /\ IF AfterCycle(mainPc, cyErr) = "stopped"
       THEN Stop
       ELSE /\ mainPc' = AfterCycle(mainPc, cyErr)
            /\ UNCHANGED << tickerOn, ctxDone >>
    /\ idx' = 1
    /\ cyErr' = FALSE
    /\ attempts' = << >>
    /\ indexLog' = << >>
    /\ sigInCycle' = FALSE
    /\ UNCHANGED << restVars, confVars, storeVars,
                    sigCh, tickerC, sigBetween, collectionStats, cpc,
                    src, continueToken, totalCount, firstItem, tmpFile,
                    calls, requests, pages, lastList, sinkLog, ret, tmpLive >>

\* ticker := time.NewTicker(cfg.SyncInterval)
NewTicker ==
    /\ mainPc = "newTicker"
    /\ mainPc' = "select"
    /\ tickerOn' = TRUE
    /\ UNCHANGED << restVars, confVars, storeVars,
                    sigCh, tickerC, ctxDone, initialDone, running,
                    sigBetween, sigInCycle, lastCycleBad, cycleVars,
                    pagedVars >>

\* case <-ticker.C: collectAndUploadAll(...)
SelectTick ==
    /\ AtSelect(mainPc)
    /\ tickerC
    /\ tickerC' = FALSE
    /\ mainPc' = "tickCycle"
    /\ BeginCycle
    /\ UNCHANGED << restVars, confVars, storeVars,
                    sigCh, tickerOn, ctxDone, sigBetween, sigInCycle,
                    initialDone, cpc, src, continueToken, totalCount,
                    firstItem, tmpFile, calls,
                    requests, pages, lastList, sinkLog,
                    ret, tmpLive >>

\* Where main continues after the sigCh and ctx.Done() cases: both return
\* from main.
AfterShutdownCaseBreak == "select"
AfterShutdownCase == "stopped"

\* case sig := <-sigCh: return, and case <-ctx.Done(): return
SelectShutdown ==
    /\ ShutdownPoint(mainPc)
    /\ sigCh \/ ctxDone
    /\ sigCh' = IF ctxDone THEN sigCh ELSE FALSE
    /\ IF AfterShutdownCase = "stopped"
       THEN Stop
       ELSE /\ mainPc' = AfterShutdownCase
            /\ UNCHANGED << tickerOn, ctxDone >>
    /\ UNCHANGED << restVars, confVars, storeVars,
                    tickerC, initialDone, running, sigBetween,
                    sigInCycle, lastCycleBad, cycleVars, pagedVars >>

\* The runtime puts a tick into ticker.C (capacity 1; dropped when full).
Tick ==
    /\ tickerOn
    /\ ~tickerC
    /\ tickerC' = TRUE
    /\ UNCHANGED << restVars, confVars, storeVars,
                    mainPc, sigCh, tickerOn, ctxDone, initialDone, running,
                    sigBetween, sigInCycle, lastCycleBad, cycleVars,
                    pagedVars >>

\* SIGINT or SIGTERM is delivered: signal.Notify puts it into sigCh
\* (capacity 1; dropped when full).
Signal ==
    /\ Notified
    /\ sigCh' = TRUE
    /\ sigBetween' = (sigBetween \/ mainPc \in {"newTicker", "select"})
    /\ sigInCycle' = (sigInCycle \/ (running = 1 /\ ~sigCh))
    /\ UNCHANGED << restVars, confVars, storeVars,
                    mainPc, tickerC, tickerOn, ctxDone, initialDone, running,
                    lastCycleBad, cycleVars, pagedVars >>

Main == LoadConfig \/ Startup \/ Killed \/ MainStart \/ CycleReturn
           \/ NewTicker \/ SelectTick \/ SelectShutdown \/ Tick \/ Signal

\* ------------------------------------------------------ the whole program
\* The state of the process when main is entered.
InitMain ==
    /\ cfg = ZeroConfig
    /\ mainPc = "loadConfig"
    /\ sigCh = FALSE
    /\ tickerC = FALSE
    /\ tickerOn = FALSE
    /\ ctxDone = FALSE
    /\ initialDone = FALSE
    /\ running = 0
    /\ sigBetween = FALSE
    /\ sigInCycle = FALSE
    /\ lastCycleBad = FALSE
    /\ cyPc = "idle"
    /\ idx = 1
    /\ collectionStats = << >>
    /\ cyErr = FALSE
    /\ attempts = << >>
    /\ indexLog = << >>
    /\ cpc = "idle"
    /\ src = 0
    /\ continueToken = EmptyToken
    /\ totalCount = 0
    /\ firstItem = TRUE
    /\ tmpFile = EmptyDoc
    /\ calls = 0
    /\ requests = << >>
    /\ InitRest
    /\ pages = << >>
    /\ lastList = "none"
    /\ sinkLog = << >>
    /\ ret = [count |-> 0, err |-> NoErr]
    /\ tmpLive = 0
    /\ stored = << >>
    /\ prev = NoPrev

Init == env \in Environments /\ InitMain

Next == Main \/ Cycle \/ Paged

Spec == Init /\ [][Next]_vars

\* The steps of the main goroutine, as opposed to the arrival of ticks and
\* signals.
Program ==
    \/ LoadConfig \/ Startup \/ MainStart \/ CycleReturn \/ NewTicker
    \/ SelectTick \/ SelectShutdown \/ Cycle \/ Paged

\* The goroutine keeps running, and the select, which picks at random among
\* its ready cases, does not pass over a buffered signal forever.
\* Both sinks are configured and the page size is 1.
InitFair ==
    /\ env \in { e \in Environments :
                    /\ e.S3_BUCKET # << >>
                    /\ e.FS_OUTPUT_DIR # << >>
                    /\ e.PAGE_SIZE = << "1" >> }
    /\ InitMain

SpecFair ==
    InitFair /\ [][Next]_vars /\ WF_vars(Program) /\ SF_vars(SelectShutdown)

\* ----------------------------------- the shared root and the App alone
InitShared == env = ExporterEnv(<< >>) /\ InitMain

SpecShared == InitShared /\ [][Deploy \/ SharedWriteFS]_vars

SpecApp == InitShared /\ [][Mount \/ IntervalTick \/ FetchResolved]_vars

\* ------------------------------------------- loadConfig on its own
Strings(chars, n) == UNION { [1..k -> chars] : k \in 0..n }

IntervalChars == {"0", "3", "s", "m", "-", "x"}

PageSizeChars == {"0", "2", "-", "x"}

\* Any choice of the sinks, SYNC_INTERVAL and PAGE_SIZE any short string.
ConfigEnvironments ==
    [ CLUSTER_NAME : { << >> }, S3_PREFIX : { << >> },
      S3_BUCKET : BucketNames, FS_OUTPUT_DIR : OutputDirs,
      SYNC_INTERVAL : Strings(IntervalChars, MaxLen),
      PAGE_SIZE : Strings(PageSizeChars, MaxDigits) ]

InitConfig == env \in ConfigEnvironments /\ InitMain

SpecConfig == InitConfig /\ [][LoadConfig]_vars

\* ------------------------------------------------------------ properties
\* The source's items in order.
SourceItems(n) == [i \in 1..n |-> i]

\* Every item received so far was encoded.
AllEncoded == totalCount = SumSeq(pages)

\* Every page but the last holds exactly limit items.
FullPages == \A i \in 1..(Len(pages) - 1) : pages[i] = Limit(cfg)

\* The pagination loop has ended with an empty continuation token.
Collected ==
    \/ cpc \in {"footer", "s3", "fs", "success"}
    \/ cpc = "returned" /\ ret.err = NoErr /\ lastList = "page"

ExpectedCalls == IF src = 0 THEN 1 ELSE CeilDiv(src, Limit(cfg))

Sinks(c) == { s \in {"s3", "fs"} : (s = "s3" /\ c.S3) \/ (s = "fs" /\ c.FS) }

WritesTo(s) == { i \in DOMAIN sinkLog : sinkLog[i].sink = s }

ResourceOf(a) == reportResources[attempts[a].res]

\* The range loop of collectAndUploadAll has ended.
LoopOver == cyPc \in {"indexS3", "indexFS", "ret"}

\* C1 as stated: against a source that returns at most limit items per call
\* and an empty token exactly when nothing remains, when every item encodes,
\* the collector collects exactly the N items in source order and issues
\* exactly ceil(N/P) list calls (1 when N = 0).
C1_ExactCallCount ==
    (Collected /\ AllEncoded) =>
        /\ ItemsOf(tmpFile) = SourceItems(src)
        /\ totalCount = src
        /\ calls = ExpectedCalls

\* C1 amended: under the same conditions the collector collects exactly the
\* N items, each once, in source order; it issues at least ceil(N/P) and at
\* most max(N, 1) list calls, and exactly ceil(N/P) (1 when N = 0) when every
\* page but the last is full.
C1_Pagination ==
    (Collected /\ AllEncoded) =>
        /\ ItemsOf(tmpFile) = SourceItems(src)
        /\ totalCount = src
        /\ cpc = "returned" => ret.count = src
        /\ calls >= ExpectedCalls
        /\ calls <= (IF src = 0 THEN 1 ELSE src)
        /\ FullPages => calls = ExpectedCalls

\* C1 witness: three items collected in two full-size pages of limit 2.
C1_Witness ==
    /\ cpc = "returned"
    /\ ret = [count |-> 3, err |-> NoErr]
    /\ Limit(cfg) = 2
    /\ pages = << 2, 1 >>
    /\ calls = 2

\* C2: a failed catalog entry does not keep the entries before and after it
\* from being collected: every call starts from fresh locals, the entries are
\* attempted one by one in catalog order whatever the earlier results, and
\* once the loop has ended every entry was attempted, collectionStats holds
\* the returned count of exactly the entries that succeeded, and that map is
\* what the index writes of the cycle carry.
C2_FailureIsolation ==
    /\ cpc = "begin" =>
          /\ tmpFile = EmptyDoc
          /\ calls = 0
          /\ pages = << >>
          /\ sinkLog = << >>
    /\ \A a \in DOMAIN attempts : attempts[a].res = a
    /\ LoopOver => Len(attempts) = Len(reportResources)
    /\ \A a \in DOMAIN attempts :
          a < idx =>
            IF attempts[a].ok
            THEN /\ ResourceOf(a) \in DOMAIN collectionStats
                 /\ collectionStats[ResourceOf(a)] = attempts[a].count
            ELSE ResourceOf(a) \notin DOMAIN collectionStats
    /\ \A j \in DOMAIN indexLog : indexLog[j].stats = collectionStats

\* C2 witness: the second entry failed, the first and the third were
\* collected with one item each, and the index was written.
C2_Witness ==
    /\ cyPc = "ret"
    /\ \E j \in DOMAIN indexLog : indexLog[j].ok
    /\ Len(attempts) >= 3
    /\ attempts[1].ok /\ attempts[1].count = 1
    /\ ~attempts[2].ok
    /\ attempts[3].ok /\ attempts[3].count = 1

\* C3: a List answered with resource-not-found makes the call return count 0
\* and no error; a List that fails for another reason makes it return an
\* error, and a resource whose call returned an error has no entry in
\* collectionStats nor in any index written in that cycle.
C3_UnknownResource ==
    /\ (cpc = "returned" /\ lastList = "notFound") =>
          ret = [count |-> 0, err |-> NoErr]
    /\ (cpc = "returned" /\ lastList = "error") =>
          /\ ret.err # NoErr
          /\ attempts # << >>
          /\ attempts[Len(attempts)].res = idx
          /\ ~attempts[Len(attempts)].ok
    /\ \A a \in DOMAIN attempts :
          ~attempts[a].ok =>
            /\ ResourceOf(a) \notin DOMAIN collectionStats
            /\ \A j \in DOMAIN indexLog :
                  ResourceOf(a) \notin DOMAIN indexLog[j].stats

\* C3 witness: the first entry was answered with not-found and recorded
\* with count 0, and the List of the second entry has failed for another
\* reason.
C3_Witness ==
    /\ cpc = "returned"
    /\ lastList = "error"
    /\ idx = 2
    /\ attempts[1].ok
    /\ collectionStats[reportResources[1]] = 0

\* C4 as stated: every document handed to a sink is a well-formed envelope
\* whose items are separated by exactly one comma, and holds as many items
\* as the count of the call, whatever items failed to encode.
C4_WellFormedDocuments ==
    (cpc \in {"s3", "fs"} \/ sinkLog # << >>) =>
        /\ WellFormed(tmpFile)
        /\ Len(ItemsOf(tmpFile)) = totalCount

\* C5 as stated: with both sinks configured, a failed object-store upload is
\* still followed by the attempt to write the filesystem copy.
C5_SinkIndependence ==
    ( /\ cpc = "returned"
      /\ cfg.S3 /\ cfg.FS
      /\ \E i \in WritesTo("s3") : ~sinkLog[i].ok )
        => WritesTo("fs") # {}

\* C6 as stated: whenever the call returns success, exactly one well-formed
\* document was written to every configured sink during the call.
C6_SuccessMeansWritten ==
    (cpc = "returned" /\ ret.err = NoErr) =>
        \A s \in Sinks(cfg) :
            /\ Cardinality(WritesTo(s)) = 1
            /\ \A i \in WritesTo(s) :
                  sinkLog[i].ok /\ WellFormed(sinkLog[i].doc)

\* C6 amended: whenever the call returns success and the success is not
\* the zero-count answer to resource-not-found, exactly one document was
\* written to every configured sink during the call (and none to another
\* sink): the temp file with its header and footer, holding exactly the
\* returned count of items.
C6_SuccessMeansPublished ==
    (cpc = "returned" /\ ret.err = NoErr /\ lastList # "notFound") =>
        /\ \A i \in DOMAIN sinkLog : sinkLog[i].sink \in Sinks(cfg)
        /\ \A s \in Sinks(cfg) :
              /\ Cardinality(WritesTo(s)) = 1
              /\ \A i \in WritesTo(s) :
                    /\ sinkLog[i].ok
                    /\ sinkLog[i].doc = tmpFile
                    /\ sinkLog[i].doc.header
                    /\ sinkLog[i].doc.footer
                    /\ Len(ItemsOf(sinkLog[i].doc)) = ret.count

\* C6 witness: success with both sinks configured and two items written to
\* each.
C6_Witness ==
    /\ cpc = "returned"
    /\ ret = [count |-> 2, err |-> NoErr]
    /\ cfg.S3 /\ cfg.FS
    /\ Len(sinkLog) = 2
    /\ sinkLog[1].ok /\ sinkLog[2].ok

\* C7 as stated: once a signal was delivered between two cycles, no new
\* cycle starts.
C7_NoCycleAfterSignal == [][sigBetween => running' <= running]_vars

\* C8: at most one cycle is in progress; a cycle is in progress exactly
\* while main is inside one of its two calls of collectAndUploadAll, and the
\* collector runs only inside that cycle.
C8_NoOverlap ==
    /\ running \in {0, 1}
    /\ running = 1 <=> mainPc \in {"initialCycle", "tickCycle"}
    /\ running = 0 <=> cyPc = "idle"
    /\ cpc # "idle" => cyPc = "loop"

\* C8 witness: a tick is pending while a tick-driven cycle is still listing.
C8_Witness ==
    /\ mainPc = "tickCycle"
    /\ cpc = "list"
    /\ tickerC
    /\ running = 1

\* C9: the ticker exists, a tick is pending, or main is at the select or in
\* a tick-driven cycle only after the initial cycle has returned; while the
\* initial cycle runs there is no ticker, and the ticker is created when no
\* cycle is in progress.
C9_InitialCycleFirst ==
    /\ (tickerOn \/ tickerC \/ mainPc \in {"select", "tickCycle"})
          => initialDone
    /\ mainPc = "initialCycle" => (running = 1 /\ ~tickerOn /\ ~tickerC)
    /\ mainPc = "newTicker" => (initialDone /\ running = 0)

\* C9 witness: the first catalog entry of a tick-driven cycle is being
\* collected.
C9_Witness ==
    /\ mainPc = "tickCycle"
    /\ initialDone
    /\ idx = 1
    /\ cpc = "begin"

\* C10: main stops only from the select, with a signal buffered or the
\* context cancelled; whatever a cycle returns, main goes on to create the
\* ticker (after the initial cycle) or back to the select.
C10_OnlyShutdownStops ==
    [][ /\ (mainPc # "stopped" /\ mainPc' = "stopped") =>
              (mainPc = "select" /\ (sigCh \/ ctxDone))
        /\ (cyPc = "ret" /\ cyPc' = "idle") =>
              mainPc' = (IF mainPc = "initialCycle" THEN "newTicker"
                         ELSE "select") ]_vars

\* C10 witness: main is back at the select with a tick pending and no signal
\* after a tick-driven cycle that had a failure.
C10_Witness ==
    /\ mainPc = "select"
    /\ lastCycleBad
    /\ tickerC
    /\ ~sigCh

\* The index writes of the cycle to sink s.
IndexWritesTo(s) == { j \in DOMAIN indexLog : indexLog[j].sink = s }

\* The catalog entries whose collection returned success in this cycle.
Succeeded == { a \in DOMAIN attempts : attempts[a].ok }

\* C12: in every cycle the a-th collector call is the call for the a-th
\* catalog entry, so each entry is attempted at most once and in catalog
\* order; a call is in progress only for the entry after the ones already
\* attempted; an index write happens only when every entry was attempted
\* and no call is in progress; and when the cycle returns every entry was
\* attempted exactly once and the index was written exactly once to every
\* configured sink and to no other, whatever the results of the entries.
C12_CycleEventOrder ==
    /\ \A a \in DOMAIN attempts : attempts[a].res = a
    /\ Len(attempts) <= Len(reportResources)
    /\ cpc \in {"begin", "list", "footer", "s3", "fs", "success"} =>
          (cyPc = "loop" /\ Len(attempts) = idx - 1)
    /\ cpc = "returned" => (cyPc = "loop" /\ Len(attempts) = idx)
    /\ (cyPc = "loop" /\ cpc = "idle") => Len(attempts) = idx - 1
    /\ cyPc = "loop" => indexLog = << >>
    /\ indexLog # << >> =>
          (Len(attempts) = Len(reportResources) /\ cpc = "idle")
    /\ \A s \in {"s3", "fs"} : Cardinality(IndexWritesTo(s)) <= 1
    /\ cyPc = "ret" =>
          /\ Len(attempts) = Len(reportResources)
          /\ \A s \in {"s3", "fs"} :
                Cardinality(IndexWritesTo(s)) =
                    (IF s \in Sinks(cfg) THEN 1 ELSE 0)

\* C12 witness: a cycle with both sinks configured returns after a failed
\* and a successful entry, with the index written once to each sink.
C12_Witness ==
    /\ cyPc = "ret"
    /\ cfg.S3 /\ cfg.FS
    /\ Len(indexLog) = 2
    /\ indexLog[1].sink = "s3" /\ indexLog[2].sink = "fs"
    /\ ~attempts[1].ok
    /\ attempts[2].ok

\* C13: the collectionStats map carried by every index write of a cycle has
\* a key for exactly the catalog entries whose collection returned success
\* in that cycle, each with the count that call returned; a cycle starts
\* with an empty map, so nothing of an earlier cycle is carried over.
C13_IndexOfThisCycle ==
    /\ (cyPc = "loop" /\ attempts = << >>) => collectionStats = << >>
    /\ \A j \in DOMAIN indexLog :
          /\ DOMAIN indexLog[j].stats = { ResourceOf(a) : a \in Succeeded }
          /\ \A a \in Succeeded :
                indexLog[j].stats[ResourceOf(a)] = attempts[a].count

\* C13 witness: a tick-driven cycle publishes an index without the first
\* entry, whose collection failed, and with the second one, collected with
\* one item.
C13_Witness ==
    /\ mainPc = "tickCycle"
    /\ cyPc = "ret"
    /\ indexLog # << >>
    /\ indexLog[1].ok
    /\ ~attempts[1].ok
    /\ attempts[2].ok /\ attempts[2].count = 1
    /\ DOMAIN indexLog[1].stats = { reportResources[2] }

\* C11 as stated: once a signal has arrived while a cycle is in progress, the
\* collection of no further catalog entry begins in that cycle.
C11_NoEntryAfterSignal ==
    [][sigInCycle => ~(cpc = "idle" /\ cpc' = "begin")]_vars

\* The temp file of the call in progress exists.
TempFileOpen == cpc \in {"list", "footer", "s3", "fs", "success"}

\* C17: a temp file exists exactly while a call of collectResourcePaged is
\* between its os.CreateTemp and its return; whatever the exit path, once
\* the call has returned, and between two resources, no temp file exists,
\* and there is never more than one.
C17_TempFileCleanup ==
    /\ tmpLive \in {0, 1}
    /\ TempFileOpen => tmpLive = 1
    /\ ~TempFileOpen => tmpLive = 0

\* C17 witness: the call for the second catalog entry has returned an
\* error after its upload failed, and no temp file is left.
C17_Witness ==
    /\ cpc = "returned"
    /\ idx = 2
    /\ ret.err = "upload"
    /\ tmpFile.footer
    /\ tmpLive = 0

\* loadConfig has returned the configuration.
ConfigLoaded == cfg.S3 \/ cfg.FS

\* s is the decimal notation of a positive integer.
IsPositiveInteger(s) ==
    s # << >> /\ DigitRun(s) = Len(s) /\ DecimalValue(s, 0) > 0

\* Neither S3_BUCKET nor FS_OUTPUT_DIR is set to a non-empty value.
NoSinkInEnv == env.S3_BUCKET = << >> /\ env.FS_OUTPUT_DIR = << >>

\* C16: with neither a bucket nor a filesystem root in the environment the
\* process never gets past loadConfig: no cycle, no list call, no temp file,
\* no sink write, no index write ever happens, and loadConfig ends the
\* process; with at least one of the two, loadConfig does not end it.
C16_FailFastConfiguration ==
    /\ [](NoSinkInEnv =>
            /\ mainPc \in {"loadConfig", "fatal", "killed"}
            /\ running = 0 /\ cyPc = "idle" /\ cpc = "idle"
            /\ calls = 0 /\ tmpLive = 0
            /\ sinkLog = << >> /\ indexLog = << >>
            /\ ~initialDone /\ ~tickerOn)
    /\ [][mainPc = "loadConfig" =>
            /\ mainPc' = "fatal" => NoSinkInEnv
            /\ mainPc' = "clients" => ~NoSinkInEnv]_vars

\* C16 witness: loadConfig has ended a process that has neither sink.
C16_Witness ==
    /\ mainPc = "fatal"
    /\ env.S3_BUCKET = << >> /\ env.FS_OUTPUT_DIR = << >>
    /\ cfg = ConfigOf(env)

\* C20 as stated: SYNC_INTERVAL set to the decimal notation of a positive
\* integer n gives a ticker period of n seconds, and SYNC_INTERVAL not set
\* gives 300 seconds.
C20_IntervalInSeconds ==
    ConfigLoaded =>
        /\ IsPositiveInteger(env.SYNC_INTERVAL) =>
              cfg.SyncInterval = DecimalValue(env.SYNC_INTERVAL, 0) * Second
        /\ env.SYNC_INTERVAL = << >> => cfg.SyncInterval = 300 * Second

\* C19 as stated: with both sinks configured, a call whose object-store
\* upload succeeded and whose filesystem write failed still returns success
\* with the number of items it wrote, so that the count is recorded.
C19_PrimaryDecides ==
    ( /\ cpc = "returned"
      /\ cfg.S3 /\ cfg.FS
      /\ \E i \in WritesTo("s3") : sinkLog[i].ok
      /\ \E i \in WritesTo("fs") : ~sinkLog[i].ok )
        => ret = [count |-> totalCount, err |-> NoErr]

\* The process was started with a filesystem root and without a bucket.
FilesystemOnly == env.S3_BUCKET = << >> /\ env.FS_OUTPUT_DIR # << >>

\* C15: in a process started with only a filesystem root, no write of any
\* cycle goes to the object store; every document write goes to the file
\* <root>/<cluster>-<stem>.json of the catalog entry under collection, and
\* every index write to the file <root>/<cluster>/index.json.
C15_FilesystemOnly ==
    FilesystemOnly =>
        /\ cpc # "s3" /\ cyPc # "indexS3"
        /\ \A i \in DOMAIN sinkLog :
              /\ sinkLog[i].sink = "fs"
              /\ sinkLog[i].path =
                    env.FS_OUTPUT_DIR \o << "/" >> \o cfg.ClusterName
                        \o << "-" >> \o AllFileNames[idx]
                        \o << ".", "json" >>
        /\ \A j \in DOMAIN indexLog :
              /\ indexLog[j].sink = "fs"
              /\ indexLog[j].path =
                    env.FS_OUTPUT_DIR \o << "/" >> \o cfg.ClusterName
                        \o << "/", "index", ".", "json" >>

\* C15 witness: with only a filesystem root, the cycle ends with its index
\* written after the second catalog entry was written to
\* /data/dev-config-audit-reports.json.
C15_Witness ==
    /\ FilesystemOnly
    /\ cyPc = "ret"
    /\ Len(indexLog) = 1
    /\ indexLog[1].ok
    /\ indexLog[1].path =
          << "/", "data", "/", "dev", "/", "index", ".", "json" >>
    /\ attempts[2].ok

\* The documents stored for the catalog entry under collection.
StoredS3 == stored[LatestKey(cfg, idx)]

StoredFS == stored[DestPath(cfg, idx)]

\* C14: as long as a call is creating its temp file or listing, no step
\* writes to a sink or changes a stored document, and a call that returned
\* because a List failed or was answered with resource-not-found, on
\* whatever page, has written to no sink: the stored documents of the
\* resource and of every other resource are as they were before the call.
C14_FailedCollectionKeepsDocuments ==
    /\ []((cpc = "returned" /\ lastList \in {"notFound", "error"}) =>
            sinkLog = << >>)
    /\ [][(cpc = "begin" \/ cpc = "list") =>
            (stored' = stored /\ sinkLog' = << >>)]_vars

\* C14 witness: the List of the second page of a call has failed while
\* both sinks hold the document of one item that an earlier cycle stored.
C14_Witness ==
    /\ cpc = "returned"
    /\ lastList = "error"
    /\ calls = 2
    /\ ret.err # NoErr
    /\ cfg.S3 /\ cfg.FS
    /\ ItemsOf(StoredS3) = << 1 >>
    /\ ItemsOf(StoredFS) = << 1 >>
    /\ StoredFS.footer

\* C18: when a call for a catalog entry goes through without any failure
\* and so did the call for the same entry in the previous cycle, against the
\* same source, then every configured sink holds the very document the
\* previous call stored, and the call returns the count the previous call
\* returned; whatever was stored before, a write replaces it.
C18_IdempotentOverwrite ==
    /\ (CleanCall /\ prev.clean /\ prev.src = src) =>
          /\ ret.count = prev.count
          /\ cfg.S3 => StoredS3 = prev.s3
          /\ cfg.FS => StoredFS = prev.fs
    /\ CleanCall =>
          /\ cfg.S3 => StoredS3 = tmpFile
          /\ cfg.FS => StoredFS = tmpFile

\* C18 witness: two consecutive calls without failure against a source of
\* two items, with both sinks configured.
C18_Witness ==
    /\ CleanCall
    /\ prev.clean
    /\ prev.src = 2 /\ src = 2
    /\ cfg.S3 /\ cfg.FS
    /\ ItemsOf(StoredS3) = << 1, 2 >>
    /\ ItemsOf(StoredFS) = << 1, 2 >>

\* C21 as stated: whatever PAGE_SIZE and SYNC_INTERVAL hold, a started
\* process sends a limit of at least 1 in its list requests and hands a
\* period greater than zero to the ticker.
C21_PositiveSizeAndInterval ==
    ConfigLoaded => (Limit(cfg) >= 1 /\ cfg.SyncInterval > 0)

\* The document paths of catalog entry i, and the index paths, of cluster c.
PathsOf(c, i) == { LatestKey(c, i), DestPath(c, i) }

IndexPaths(c) == { IndexKey(c), IndexPath(c) }

\* C22: in a started process, two distinct catalog entries have different
\* object keys and different filesystem paths, and no document path is an
\* index path; so every sink write of a call goes to a path that belongs
\* to no other catalog entry and is not an index path, and no index write
\* goes to a document path.
C22_DisjointPaths ==
    ConfigLoaded =>
        /\ \A i, j \in DOMAIN AllFileNames :
              i # j =>
                 /\ LatestKey(cfg, i) # LatestKey(cfg, j)
                 /\ DestPath(cfg, i) # DestPath(cfg, j)
        /\ \A i \in DOMAIN AllFileNames :
              PathsOf(cfg, i) \cap IndexPaths(cfg) = {}
        /\ \A w \in DOMAIN sinkLog :
              /\ sinkLog[w].path \notin IndexPaths(cfg)
              /\ \A j \in DOMAIN AllFileNames \ {idx} :
                    sinkLog[w].path \notin PathsOf(cfg, j)
        /\ \A w \in DOMAIN indexLog :
              \A j \in DOMAIN AllFileNames :
                 indexLog[w].path \notin PathsOf(cfg, j)

\* C22 witness: with both sinks configured, a cycle has written the
\* documents of the first two catalog entries and then the index to both
\* sinks, all writes succeeding.
C22_Witness ==
    /\ cyPc = "ret"
    /\ cfg.S3 /\ cfg.FS
    /\ Len(attempts) >= 2
    /\ attempts[1].ok /\ attempts[1].count = 1
    /\ attempts[2].ok /\ attempts[2].count = 1
    /\ Len(indexLog) = 2
    /\ indexLog[1].ok /\ indexLog[2].ok

\* C27 as stated: when every item received was encoded and a call returns
\* count 0 without an error, no successful List of that call delivered an
\* item: resource-not-found becomes a zero-count success on the first page
\* only.
C27_ZeroCountMeansNothingRetrieved ==
    ( /\ cpc = "returned"
      /\ ret = [count |-> 0, err |-> NoErr]
      /\ AllEncoded )
        => SumSeq(pages) = 0

\* C28 as stated: when the call for a catalog entry returns success, so
\* that the index of the cycle gets the entry with the returned count, and
\* every sink write the call attempted succeeded, the document stored for
\* the entry in each configured sink holds exactly that many items; also
\* after earlier cycles, and when the resource is now reported not found.
C28_IndexAgreesWithDocuments ==
    ( /\ cpc = "returned"
      /\ ret.err = NoErr
      /\ \A w \in DOMAIN sinkLog : sinkLog[w].ok )
        => /\ cfg.S3 => Len(ItemsOf(StoredS3)) = ret.count
           /\ cfg.FS => Len(ItemsOf(StoredFS)) = ret.count

\* No collector call, cycle step or index write is in progress.
Idle == cpc = "idle" /\ cyPc = "idle" /\ tmpLive = 0

\* C26: main stops only from the select of its loop, with no cycle, no
\* collector call and no temp file in progress, and the step that stops it
\* writes nothing; the arrival of a signal changes nothing of a cycle in
\* progress, which goes on to its return; so a stopped process is idle.
C26_ExitOnlyWhileIdle ==
    /\ [](mainPc = "stopped" => Idle)
    /\ [][ /\ (mainPc # "stopped" /\ mainPc' = "stopped") =>
                /\ mainPc = "select"
                /\ Idle
                /\ UNCHANGED << cycleVars, pagedVars, storeVars >>
           /\ (~sigCh /\ sigCh') =>
                UNCHANGED << mainPc, cycleVars, pagedVars, storeVars >>
         ]_vars

\* C26 witness: main has stopped on a signal that arrived while a cycle
\* was in progress and at no other time; the cycle ran to its return
\* before main came to the select.
C26_Witness ==
    /\ mainPc = "stopped"
    /\ ~sigBetween
    /\ initialDone
    /\ ~tickerOn
    /\ Idle

\* C24: the first List of a call carries the empty continuation token;
\* every later List carries the token that the response before it
\* returned, which is not empty; no List follows a response with an empty
\* token or a failed List; and, the source being finite, every call
\* returns.
C24_TokenProtocol ==
    /\ []( /\ Len(requests) = calls
           /\ requests # << >> => requests[1].sent = EmptyToken
           /\ \A k \in 2..Len(requests) :
                 /\ requests[k - 1].got \notin {EmptyToken, NoToken}
                 /\ requests[k].sent = requests[k - 1].got
           /\ (cpc = "list" /\ requests # << >>) =>
                 requests[Len(requests)].got \notin {EmptyToken, NoToken} )
    /\ <>(cpc = "returned")

\* C24 witness: a call has returned after three List requests, the second
\* and third carrying the tokens of the first and second response, the
\* third response carrying the empty token.
C24_Witness ==
    /\ cpc = "returned"
    /\ ret.err = NoErr
    /\ Len(requests) = 3
    /\ requests[1].got # EmptyToken
    /\ requests[2].sent = requests[1].got
    /\ requests[3].sent = requests[2].got
    /\ requests[3].got = EmptyToken

\* C25: once a signal is buffered in sigCh, main eventually stops, also
\* when a tick is pending every time main is at the select.
C25_ShutdownLiveness == sigCh ~> (mainPc = "stopped")

\* C25 witness: main has stopped although a tick was pending at the select,
\* on a signal that arrived while main was between two cycles.
C25_Witness ==
    /\ mainPc = "stopped"
    /\ tickerC
    /\ sigBetween
    /\ initialDone
    /\ ~sigCh

\* The header that collectResourcePaged writes: {"apiVersion": ..., "items": [
HeaderApiVersion == "aquasecurity.github.io/v1alpha1"

\* What a reader of a document written by collectResourcePaged gets: the
\* apiVersion of its header and the items between its header and footer.
ParseDocument(doc) ==
    [apiVersion |-> IF doc.header THEN HeaderApiVersion ELSE "",
     items |-> ItemsOf(doc)]

\* The whole-list collector against a source of n items when nothing fails:
\* one List without limit, the response marshalled as one document and
\* uploaded under latestKey, len(list.Items) returned.
collectResource(s3Path, i, n) ==
    [latestKey |-> s3Path \o << "/" >> \o AllFileNames[i]
                      \o << ".", "json" >>,
     response |-> [apiVersion |-> "aquasecurity.github.io/v1alpha1",
                   items |-> SourceItems(n)],
     count |-> Len(SourceItems(n))]

\* s3Path := fmt.Sprintf("%s/%s", cfg.S3Prefix, cfg.ClusterName), in the
\* collectAndUploadAll of the whole-list collector.
WholeListS3Path(c) == c.S3Prefix \o << "/" >> \o c.ClusterName

\* No operation of the call failed: every List, Encode and sink write.
NoFailure == CleanCall /\ \A w \in DOMAIN sinkLog : sinkLog[w].ok

\* C23: with a bucket configured, a paginated call in which nothing failed
\* has uploaded, under the key the whole-list collector uses for the same
\* catalog entry, a well-formed document that reads as the response the
\* whole-list collector marshals for the same source (same apiVersion,
\* same items in the same order), and returns the count that collector
\* returns, whatever the page size and the pages served.
C23_PagedSubsumesWholeList ==
    (NoFailure /\ cfg.S3) =>
        LET whole == collectResource(WholeListS3Path(cfg), idx, src)
        IN  /\ ret.count = whole.count
            /\ WritesTo("s3") # {}
            /\ \A w \in WritesTo("s3") :
                  /\ sinkLog[w].path = whole.latestKey
                  /\ WellFormed(sinkLog[w].doc)
                  /\ ParseDocument(sinkLog[w].doc) = whole.response

\* C23 witness: a call without failure has collected a source of three
\* items in two pages and uploaded the document to the bucket.
C23_Witness ==
    /\ NoFailure
    /\ cfg.S3
    /\ src = 3
    /\ Len(pages) = 2
    /\ ret.count = 3
    /\ \E w \in WritesTo("s3") :
          ParseDocument(sinkLog[w].doc).items = << 1, 2, 3 >>

\* C29 as stated: two exporters with different cluster names on one root
\* have no document path in common, whatever the catalog entries, and a
\* write of one exporter never replaces a file that the other wrote.
C29_NoCrossClusterCollision ==
    /\ [](exporters # << >> =>
            \A s1, s2 \in DOMAIN AllFileNames :
               DestPath(ExporterConfig(1), s1)
                  # DestPath(ExporterConfig(2), s2))
    /\ [][\A p \in DOMAIN sharedFS :
             sharedFS'[p].exporter = sharedFS[p].exporter]_vars

\* C30 as stated: once every fetchData call that was started has finished,
\* the clusters state holds the result of the call that was started last.
C30_NewestFetchShown ==
    (started > 0 /\ inflight = {}) => clusters = started

====
